---- MODULE Spec2Model ----
(***************************************************************************)
(* Universal Clipboard Sync relay (avicdr/myclipapi).                      *)
(*                                                                         *)
(* Spec       : src/server.js, the "secure server" with revocation, the    *)
(*              offline queue and the transient file store.                *)
(* SpecMerged : src/unnamed/part_002, the "final merged" server, the       *)
(*              variant that handles UPDATE_RULES.                         *)
(*                                                                         *)
(* Every handler runs to completion on Node's single thread, so one        *)
(* handler is one action.  A JavaScript Map is a function whose DOMAIN is  *)
(* its key set; null is the empty sequence and an object reference a       *)
(* one-element sequence.  Abstractions: name, platform and lastSeen of a   *)
(* device object are not stored (platform only decides rules.file), the    *)
(* Map iteration order is the fixed order DeviceOrder, and the clock is    *)
(* read in steps of ClockStepMs.  ws.send on a socket that is not OPEN     *)
(* sends nothing; ws.close() moves an OPEN socket to CLOSING, and the      *)
(* socket keeps emitting 'message' until its 'close' event.                *)
(***************************************************************************)
EXTENDS Integers, Sequences, FiniteSets, TLC

\* ----------------------------------------------------------------- bounds
MaxConns == 3
MaxClock == 3
MaxQueue == 2
MaxFiles == 1

Conns == 1..MaxConns
FileIds == 1..MaxFiles
Users == {"u1", "u2"}
DeviceOrder == <<"d1", "d2">>
DeviceIds == {DeviceOrder[i] : i \in DOMAIN DeviceOrder}
Tokens == {"T1"}
Platforms == {"android", "desktop"}
ContentTypes == {"text", "image", "file"}
Payloads == {"p1", "p2"}
\* the (userId, deviceId, platform) the clients of one account authenticate with
Identities1 == {<<"u1", "d1", "desktop">>, <<"u1", "d2", "android">>}
\* the partial rule maps an UPDATE_RULES carries
RuleUpdates == {[k \in {key} |-> b] : key \in {"text", "image"}, b \in BOOLEAN}

\* ------------------------------------------------------ program constants
PAIR_TTL_MS == 120000
SWEEP_MS == 60000
FILE_TTL_MS == 60000
MAX_FILE_SIZE == 5 * 1024 * 1024
ClockStepMs == SWEEP_MS
Sizes == {MAX_FILE_SIZE, MAX_FILE_SIZE + 1}
Http == 0

VARIABLES
    readyState,      \* connection -> "NONE" | "OPEN" | "CLOSING" | "CLOSED"
    device,          \* connection -> its handler's `device` variable
    users,           \* userId -> (deviceId -> device object)
    pairingTokens,   \* token -> [userId, expiresAt]
    revokedDevices,  \* userId -> set of deviceIds
    offlineQueue,    \* userId -> (deviceId -> sequence of CLIP_SYNC)
    fileStore,       \* fileId -> file record
    nextFile,        \* the next fresh file id (crypto.randomUUID)
    now,             \* Date.now()
    crashed,         \* the process died of an unhandled rejection
    outbox,          \* what the last step wrote: <<[to, via, msg]>>
    tokenLog,        \* history: token -> [at: its last issuance, ok: AUTH_OKs since]
    fileLog,         \* history: fileId -> [at: when stored, served: 200s since]
    missed           \* history: <<userId, deviceId>> of a device whose close was
                     \* processed -> the text payloads its account sent since

stores == <<users, pairingTokens, revokedDevices, offlineQueue, fileStore>>
vars == <<readyState, device, users, pairingTokens, revokedDevices,
          offlineQueue, fileStore, nextFile, now, crashed, outbox,
          tokenLog, fileLog, missed>>

\* ------------------------------------------------------------------- maps
EmptyMap == << >>
Null == << >>
Ref(o) == <<o>>
MapSet(m, k, v) == [x \in (DOMAIN m) \cup {k} |-> IF x = k THEN v ELSE m[x]]
MapDelete(m, k) == [x \in (DOMAIN m) \ {k} |-> m[x]]

RECURSIVE Flatten(_, _)
Flatten(f, n) == IF n = 0 THEN << >> ELSE Flatten(f, n - 1) \o f[n]

\* ---------------------------------------------------------------- helpers
\* one write to a socket (or one HTTP response, to == Http): the message and,
\* for a message addressed through a registry slot, the slot <<userId, deviceId>>
Envelope(c, via, m) == [to |-> c, via |-> via, msg |-> m]
Reply == <<"reply">>

\* ws.send(JSON.stringify(m)) on connection c, whose readyState is rs[c]
Send(rs, c, via, m) ==
    IF rs[c] = "OPEN" THEN <<Envelope(c, via, m)>> ELSE << >>

\* ws.close()
CloseWs(rs, c) == IF rs[c] = "OPEN" THEN [rs EXCEPT ![c] = "CLOSING"] ELSE rs

InDenySet(rv, userId, deviceId) ==
    userId \in DOMAIN rv /\ deviceId \in rv[userId]

\* a server that consults no deny set
isRevokedNever(userId, deviceId) == FALSE

isRevoked(userId, deviceId) == InDenySet(revokedDevices, userId, deviceId)

DeviceList(us, rv, userId) ==
    {[deviceId |-> d, rules |-> us[userId][d].rules,
      revoked |-> InDenySet(rv, userId, d)] : d \in DOMAIN us[userId]}

broadcastDevices(us, rv, rs, userId) ==
    IF userId \notin DOMAIN us THEN << >>
    ELSE LET list == DeviceList(us, rv, userId)
             one == [i \in DOMAIN DeviceOrder |->
                       LET d == DeviceOrder[i] IN
                       IF d \in DOMAIN us[userId]
                       THEN Send(rs, us[userId][d].ws, <<userId, d>>,
                                 [type |-> "DEVICE_LIST", devices |-> list])
                       ELSE << >>]
         IN Flatten(one, Len(DeviceOrder))

\* the queue flushQueue reads, empty when there is none
QueueOf(q, userId, deviceId) ==
    IF userId \in DOMAIN q /\ deviceId \in DOMAIN q[userId]
    THEN q[userId][deviceId] ELSE << >>

\* lines 97-101: the loop of flushQueue
flushSends(q, rs, userId, deviceId, c) ==
    LET queue == QueueOf(q, userId, deviceId)
        one == [i \in DOMAIN queue |-> Send(rs, c, <<userId, deviceId>>, queue[i])]
    IN Flatten(one, Len(queue))

\* lines 91-95 and 103: what flushQueue leaves of the offline queue
flushQueue(q, userId, deviceId) ==
    IF QueueOf(q, userId, deviceId) = << >> THEN q
    ELSE MapSet(q, userId, MapDelete(q[userId], deviceId))

DefaultRules(platform) ==
    [text |-> TRUE, image |-> TRUE, file |-> platform # "android"]

\* ------------------------------------------------------------------- Init
Init ==
    /\ readyState = [c \in Conns |-> "NONE"]
    /\ device = [c \in Conns |-> Null]
    /\ users = EmptyMap
    /\ pairingTokens = EmptyMap
    /\ revokedDevices = EmptyMap
    /\ offlineQueue = EmptyMap
    /\ fileStore = EmptyMap
    /\ nextFile = 1
    /\ now = 0
    /\ crashed = FALSE
    /\ outbox = << >>
    /\ tokenLog = EmptyMap
    /\ fileLog = EmptyMap
    /\ missed = EmptyMap

\* a socket emits 'message' and 'close' from its connection to its 'close' event
Receiving(c) == ~crashed /\ readyState[c] \in {"OPEN", "CLOSING"}

\* wss.on("connection"): a new socket, the lowest unused one
Connect(c) ==
    /\ ~crashed
    /\ readyState[c] = "NONE"
    /\ \A b \in Conns : b < c => readyState[b] # "NONE"
    /\ readyState' = [readyState EXCEPT ![c] = "OPEN"]
    /\ outbox' = << >>
    /\ UNCHANGED <<device, stores, nextFile, fileLog, now, crashed, tokenLog, missed>>

\* Date.now() moves on.  Only the comparisons with the expiresAt of a stored
\* token or file read the clock, so it is advanced while one can still expire
Tick ==
    /\ ~crashed
    /\ now < MaxClock * ClockStepMs
    /\ \/ \E t \in DOMAIN pairingTokens : pairingTokens[t].expiresAt >= now
       \/ \E f \in DOMAIN fileStore : fileStore[f].expiresAt >= now
    /\ now' = now + ClockStepMs
    /\ outbox' = << >>
    /\ UNCHANGED <<readyState, device, stores, nextFile, fileLog, crashed, tokenLog, missed>>

\* app.post("/pair") with a userId; generateCode() may repeat a code
Pair(userId, token) ==
    /\ ~crashed
    /\ pairingTokens' = MapSet(pairingTokens, token,
                               [userId |-> userId, expiresAt |-> now + PAIR_TTL_MS])
    /\ outbox' = <<Envelope(Http, <<"pair">>,
                            [type |-> "PAIR", pairingToken |-> token,
                             expiresIn |-> 120])>>
    /\ tokenLog' = MapSet(tokenLog, token, [at |-> now, ok |-> 0])
    /\ UNCHANGED <<readyState, device, users, revokedDevices, offlineQueue,
                   fileStore, nextFile, fileLog, now, crashed, missed>>

\* a sweep that also takes a token at the instant of its expiry
SweptInclusive(toks, t) == toks[t].expiresAt <= now

\* line 155: the sweep's test
Swept(toks, t) == toks[t].expiresAt < now

\* setInterval: cleanup of expired pairing tokens
Sweep ==
    /\ ~crashed
    /\ pairingTokens' = [t \in {x \in DOMAIN pairingTokens : ~Swept(pairingTokens, x)}
                            |-> pairingTokens[t]]
    /\ outbox' = << >>
    /\ UNCHANGED <<readyState, device, users, revokedDevices, offlineQueue,
                   fileStore, nextFile, fileLog, now, crashed, tokenLog, missed>>

\* lines 226-238: the device object of a registration
DeviceObject(c, userId, deviceId, platform) ==
    [ws |-> c, userId |-> userId, deviceId |-> deviceId,
     rules |-> DefaultRules(platform)]

\* lines 240-241
Registered(us, obj) ==
    MapSet(us, obj.userId,
           MapSet(IF obj.userId \in DOMAIN us THEN us[obj.userId] ELSE EmptyMap,
                  obj.deviceId, obj))

\* lines 220-246: the revocation check and the registration, for the userId
\* the AUTH or AUTH_PAIR resolved to
Register(c, userId, deviceId, platform) ==
    IF isRevoked(userId, deviceId)
    THEN /\ outbox' = Send(readyState, c, Reply, [type |-> "DEVICE_REVOKED"])
         /\ readyState' = CloseWs(readyState, c)
         /\ UNCHANGED <<device, users, offlineQueue, missed>>
    ELSE LET obj == DeviceObject(c, userId, deviceId, platform)
             us == Registered(users, obj)
         IN /\ device' = [device EXCEPT ![c] = Ref(obj)]
            /\ users' = us
            /\ outbox' = Send(readyState, c, Reply,
                              [type |-> "AUTH_OK", userId |-> userId])
                         \o broadcastDevices(us, revokedDevices, readyState, userId)
                         \o flushSends(offlineQueue, readyState, userId, deviceId, c)
            /\ offlineQueue' = flushQueue(offlineQueue, userId, deviceId)
            /\ missed' = MapDelete(missed, <<userId, deviceId>>)
            /\ UNCHANGED readyState

Auth(c, userId, deviceId, platform) ==
    /\ Receiving(c)
    /\ Register(c, userId, deviceId, platform)
    /\ UNCHANGED <<pairingTokens, revokedDevices, fileStore, nextFile, fileLog, now,
                   crashed, tokenLog>>

\* a token check that ignores expiresAt
TokenValidNoExpiry(toks, token) == token \in DOMAIN toks

\* a server that leaves a used token in the store
ConsumeTokenKept(toks, token) == toks

\* lines 211-212
TokenValid(toks, token) ==
    token \in DOMAIN toks /\ ~(toks[token].expiresAt < now)

\* line 216
ConsumeToken(toks, token) == MapDelete(toks, token)

AuthPair(c, token, deviceId, platform) ==
    /\ Receiving(c)
    /\ IF ~TokenValid(pairingTokens, token)
       THEN /\ outbox' = Send(readyState, c, Reply, [type |-> "AUTH_FAIL"])
            /\ UNCHANGED <<readyState, device, users, offlineQueue, pairingTokens,
                           tokenLog, missed>>
       ELSE /\ pairingTokens' = ConsumeToken(pairingTokens, token)
            /\ Register(c, pairingTokens[token].userId, deviceId, platform)
            /\ tokenLog' = IF isRevoked(pairingTokens[token].userId, deviceId)
                              \/ token \notin DOMAIN tokenLog
                           THEN tokenLog
                           ELSE [tokenLog EXCEPT ![token].ok = @ + 1]
    /\ UNCHANGED <<revokedDevices, fileStore, nextFile, fileLog, now, crashed>>

\* ws.on("close")
Close(c) ==
    /\ Receiving(c)
    /\ readyState' = [readyState EXCEPT ![c] = "CLOSED"]
    /\ IF device[c] = Null
       THEN /\ outbox' = << >>
            /\ UNCHANGED users
       ELSE LET dev == device[c][1]
                us == IF dev.userId \in DOMAIN users
                      THEN MapSet(users, dev.userId,
                                  MapDelete(users[dev.userId], dev.deviceId))
                      ELSE users
            IN /\ users' = us
               /\ outbox' = broadcastDevices(us, revokedDevices, readyState',
                                             dev.userId)
    /\ UNCHANGED <<device, pairingTokens, revokedDevices, offlineQueue,
                   fileStore, nextFile, fileLog, now, crashed, tokenLog, missed>>

\* lines 249-250: a message other than AUTH / AUTH_PAIR on a connection whose
\* `device` is still null returns without a reply (FILE_OFFER never gets here)
Unauthenticated(c) ==
    /\ Receiving(c)
    /\ device[c] = Null
    /\ outbox' = << >>
    /\ UNCHANGED <<readyState, device, stores, nextFile, fileLog, now, crashed,
                   tokenLog, missed>>

\* a message type no branch handles (UPDATE_RULES among them): only lastSeen
UpdateRules(c, rules) ==
    /\ Receiving(c)
    /\ device[c] # Null
    /\ outbox' = << >>
    /\ UNCHANGED <<readyState, device, stores, nextFile, fileLog, now, crashed,
                   tokenLog, missed>>

\* lines 256-266
RevokeDevice(c, deviceId) ==
    /\ Receiving(c)
    /\ device[c] # Null
    /\ LET userId == device[c][1].userId
           rv == MapSet(revokedDevices, userId,
                        (IF userId \in DOMAIN revokedDevices
                         THEN revokedDevices[userId] ELSE {}) \cup {deviceId})
           hasTarget == userId \in DOMAIN users /\ deviceId \in DOMAIN users[userId]
           rs == IF hasTarget THEN CloseWs(readyState, users[userId][deviceId].ws)
                 ELSE readyState
       IN /\ revokedDevices' = rv
          /\ readyState' = rs
          /\ outbox' = broadcastDevices(users, rv, rs, userId)
    /\ UNCHANGED <<device, users, pairingTokens, offlineQueue, fileStore,
                   nextFile, fileLog, now, crashed, tokenLog, missed>>

\* a relay loop with the text check only
ClipAllowedTextOnly(rules, contentType) ==
    ~(contentType = "text" /\ ~rules.text)

\* lines 324-325: the rule checks of the CLIP_UPDATE loop
ClipAllowed(rules, contentType) ==
    /\ ~(contentType = "text" /\ ~rules.text)
    /\ ~(contentType = "image" /\ ~rules.image)

\* lines 327-337
ClipSync(dev, contentType, payload) ==
    [type |-> "CLIP_SYNC", payload |-> payload, contentType |-> contentType,
     from |-> dev.deviceId]

\* lines 318-325: the peers the CLIP_UPDATE loop reaches past its `continue`s
ClipPeers(dev, contentType) ==
    IF dev.userId \notin DOMAIN users THEN {}
    ELSE {d \in DOMAIN users[dev.userId] :
            d # dev.deviceId /\ ClipAllowed(users[dev.userId][d].rules, contentType)}

\* a relay loop that queues every content type
ClipQueuedAnyType(dev, contentType) ==
    {d \in ClipPeers(dev, contentType) :
        readyState[users[dev.userId][d].ws] # "OPEN"}

\* lines 339-343: the peers whose message goes to the offline queue
ClipQueued(dev, contentType) ==
    {d \in ClipPeers(dev, contentType) :
        readyState[users[dev.userId][d].ws] # "OPEN" /\ contentType = "text"}

\* lines 83-88, for every peer in targets
enqueue(q, userId, targets, msg) ==
    IF targets = {} THEN q
    ELSE LET userQ == IF userId \in DOMAIN q THEN q[userId] ELSE EmptyMap
         IN MapSet(q, userId,
                   [d \in (DOMAIN userQ) \cup targets |->
                      IF d \in targets
                      THEN Append(IF d \in DOMAIN userQ THEN userQ[d] ELSE << >>, msg)
                      ELSE userQ[d]])

\* history: the close of a socket that was authenticated as this device has
\* been processed, and no socket that is not closed is authenticated as it
Disconnected(userId, deviceId) ==
    LET as == {c \in Conns : /\ device[c] # Null
                             /\ device[c][1].userId = userId
                             /\ device[c][1].deviceId = deviceId}
    IN as # {} /\ \A c \in as : readyState[c] = "CLOSED"

\* history: a text update of account userId, sent by deviceId, is noted for the
\* account's disconnected devices (one that missed MaxQueue is no longer followed)
Missing(m, userId, deviceId, contentType, payload) ==
    IF contentType # "text" THEN m
    ELSE LET away == {<<userId, d>> : d \in {x \in DeviceIds \ {deviceId} :
                                                Disconnected(userId, x)}}
             old(k) == IF k \in DOMAIN m THEN m[k] ELSE << >>
         IN [k \in {x \in (DOMAIN m) \cup away :
                      x \notin away \/ Len(old(x)) < MaxQueue} |->
               IF k \in away THEN Append(old(k), payload) ELSE m[k]]

\* lines 317-345
ClipUpdate(c, contentType, payload) ==
    /\ Receiving(c)
    /\ device[c] # Null
    /\ LET dev == device[c][1]
           msg == ClipSync(dev, contentType, payload)
           peers == ClipPeers(dev, contentType)
           queued == ClipQueued(dev, contentType)
           one == [i \in DOMAIN DeviceOrder |->
                     LET d == DeviceOrder[i] IN
                     IF d \in peers
                     THEN Send(readyState, users[dev.userId][d].ws,
                               <<dev.userId, d>>, msg)
                     ELSE << >>]
       IN /\ \A d \in queued : Len(QueueOf(offlineQueue, dev.userId, d)) < MaxQueue
          /\ outbox' = Flatten(one, Len(DeviceOrder))
          /\ offlineQueue' = enqueue(offlineQueue, dev.userId, queued, msg)
          /\ missed' = Missing(missed, dev.userId, dev.deviceId, contentType, payload)
    /\ UNCHANGED <<readyState, device, users, pairingTokens, revokedDevices,
                   fileStore, nextFile, fileLog, now, crashed, tokenLog>>

\* lines 193-199: the message of the first FILE_OFFER block.  `...data` follows
\* `type` in the object literal, so it keeps data.type and carries data.payload
FileSync(dev, size, bytes) ==
    [type |-> "FILE_OFFER", size |-> size, payload |-> bytes, from |-> dev.deviceId]

\* lines 190-192
FileSyncPeers(dev) == {d \in DOMAIN users[dev.userId] : d # dev.deviceId}

\* lines 295-306: the announcement of a stored file
FileAnnounce(dev, fileId, size) ==
    [type |-> "FILE_OFFER", id |-> fileId, size |-> size, from |-> dev.deviceId]

\* lines 286-291
FileAnnouncePeers(dev) ==
    IF dev.userId \notin DOMAIN users THEN {}
    ELSE {d \in DOMAIN users[dev.userId] :
            d # dev.deviceId /\ users[dev.userId][d].rules.file}

\* line 273
Oversized(size) == size > MAX_FILE_SIZE

\* a FILE_OFFER on an authenticated connection: lines 189-201, then 272-311
FileOffer(c, size, bytes) ==
    /\ Receiving(c)
    /\ device[c] # Null
    /\ LET dev == device[c][1]
           first == [i \in DOMAIN DeviceOrder |->
                       LET d == DeviceOrder[i] IN
                       IF d \in FileSyncPeers(dev)
                       THEN Send(readyState, users[dev.userId][d].ws,
                                 <<dev.userId, d>>, FileSync(dev, size, bytes))
                       ELSE << >>]
           second == [i \in DOMAIN DeviceOrder |->
                        LET d == DeviceOrder[i] IN
                        IF d \in FileAnnouncePeers(dev)
                        THEN Send(readyState, users[dev.userId][d].ws,
                                  <<dev.userId, d>>, FileAnnounce(dev, nextFile, size))
                        ELSE << >>]
       IN IF Oversized(size)
          THEN /\ outbox' = Flatten(first, Len(DeviceOrder))
               /\ UNCHANGED <<fileStore, nextFile, fileLog>>
          ELSE /\ nextFile <= MaxFiles
               /\ fileStore' = MapSet(fileStore, nextFile,
                                      [buffer |-> bytes, userId |-> dev.userId,
                                       ownerDeviceId |-> dev.deviceId, size |-> size,
                                       expiresAt |-> now + FILE_TTL_MS])
               /\ nextFile' = nextFile + 1
               /\ fileLog' = MapSet(fileLog, nextFile, [at |-> now, served |-> 0])
               /\ outbox' = Flatten(first, Len(DeviceOrder))
                            \o Flatten(second, Len(DeviceOrder))
    /\ UNCHANGED <<readyState, device, users, pairingTokens, revokedDevices,
                   offlineQueue, now, crashed, tokenLog, missed>>

\* a FILE_OFFER while `device` is null: line 190 reads device.userId and the
\* async handler rejects.  node >= 15 ends the process on the unhandled
\* rejection (and its memory is gone), older versions warn and go on
FileOfferUnauthenticated(c) ==
    /\ Receiving(c)
    /\ device[c] = Null
    /\ outbox' = << >>
    /\ \/ /\ crashed' = TRUE
          /\ readyState' = [b \in Conns |-> "CLOSED"]
          /\ device' = [b \in Conns |-> Null]
          /\ users' = EmptyMap
          /\ pairingTokens' = EmptyMap
          /\ revokedDevices' = EmptyMap
          /\ offlineQueue' = EmptyMap
          /\ fileStore' = EmptyMap
          /\ tokenLog' = EmptyMap
          /\ fileLog' = EmptyMap
          /\ missed' = EmptyMap
          /\ UNCHANGED <<nextFile, now>>
       \/ UNCHANGED <<readyState, device, stores, nextFile, fileLog, now, crashed,
                      tokenLog, missed>>

\* a download check that ignores expiresAt
FileServedNoExpiry(fileId) == fileId \in DOMAIN fileStore

\* line 163
FileServed(fileId) ==
    fileId \in DOMAIN fileStore /\ ~(fileStore[fileId].expiresAt < now)

\* app.get("/file/:id")
GetFile(fileId) ==
    /\ ~crashed
    /\ IF FileServed(fileId)
       THEN /\ outbox' = <<Envelope(Http, <<"file">>,
                                    [type |-> "200", id |-> fileId,
                                     size |-> fileStore[fileId].size,
                                     payload |-> fileStore[fileId].buffer])>>
            /\ fileStore' = MapDelete(fileStore, fileId)
            /\ fileLog' = [fileLog EXCEPT ![fileId].served = @ + 1]
       ELSE /\ outbox' = <<Envelope(Http, <<"file">>, [type |-> "404", id |-> fileId])>>
            /\ UNCHANGED <<fileStore, fileLog>>
    /\ UNCHANGED <<readyState, device, users, pairingTokens, revokedDevices,
                   offlineQueue, nextFile, now, crashed, tokenLog, missed>>

\* ---------------------------------------------------------- specifications
\* src/server.js, every handler, for the clients of two accounts
Next ==
    \/ \E c \in Conns : Connect(c)
    \/ Tick
    \/ \E u \in Users, t \in Tokens : Pair(u, t)
    \/ Sweep
    \/ \E c \in Conns, u \in Users, d \in DeviceIds, p \in Platforms : Auth(c, u, d, p)
    \/ \E c \in Conns, t \in Tokens, d \in DeviceIds, p \in Platforms :
          AuthPair(c, t, d, p)
    \/ \E c \in Conns : Unauthenticated(c)
    \/ \E c \in Conns, r \in RuleUpdates : UpdateRules(c, r)
    \/ \E c \in Conns, d \in DeviceIds : RevokeDevice(c, d)
    \/ \E c \in Conns, ct \in ContentTypes, p \in Payloads : ClipUpdate(c, ct, p)
    \/ \E c \in Conns, s \in Sizes, b \in Sizes : FileOffer(c, s, b)
    \/ \E c \in Conns : FileOfferUnauthenticated(c)
    \/ \E f \in FileIds : GetFile(f)
    \/ \E c \in Conns : Close(c)

Spec == Init /\ [][Next]_vars

\* The specifications below are src/server.js with the clients of one account,
\* each with the requests of one part of the protocol.

\* pairing: POST /pair, AUTH_PAIR, the sweep and the clock
NextPairing ==
    \/ \E c \in Conns : Connect(c)
    \/ Tick
    \/ \E t \in Tokens : Pair("u1", t)
    \/ Sweep
    \/ \E c \in Conns, t \in Tokens, i \in Identities1 : AuthPair(c, t, i[2], i[3])
    \/ \E c \in Conns : Close(c)

SpecPairing == Init /\ [][NextPairing]_vars

\* sessions and revocation: AUTH, AUTH_PAIR, REVOKE_DEVICE, close
NextRevocation ==
    \/ \E c \in Conns : Connect(c)
    \/ \E t \in Tokens : Pair("u1", t)
    \/ \E c \in Conns, i \in Identities1 : Auth(c, i[1], i[2], i[3])
    \/ \E c \in Conns, t \in Tokens, i \in Identities1 : AuthPair(c, t, i[2], i[3])
    \/ \E c \in Conns, d \in DeviceIds : RevokeDevice(c, d)
    \/ \E c \in Conns : Close(c)

SpecRevocation == Init /\ [][NextRevocation]_vars

\* the clipboard relay and the offline queue
NextRelay ==
    \/ \E c \in Conns : Connect(c)
    \/ \E c \in Conns, i \in Identities1 : Auth(c, i[1], i[2], i[3])
    \/ \E c \in Conns, d \in DeviceIds : RevokeDevice(c, d)
    \/ \E c \in Conns, ct \in ContentTypes, p \in Payloads : ClipUpdate(c, ct, p)
    \/ \E c \in Conns : Close(c)

SpecRelay == Init /\ [][NextRelay]_vars

\* file offers and the transient file store
NextFiles ==
    \/ \E c \in Conns : Connect(c)
    \/ Tick
    \/ \E c \in Conns, i \in Identities1 : Auth(c, i[1], i[2], i[3])
    \/ \E c \in Conns, s \in Sizes, b \in Sizes : FileOffer(c, s, b)
    \/ \E c \in Conns : FileOfferUnauthenticated(c)
    \/ \E f \in FileIds : GetFile(f)
    \/ \E c \in Conns : Close(c)

SpecFiles == Init /\ [][NextFiles]_vars

\* the dispatch of a message by the connection's authentication state
NextDispatch ==
    \/ \E c \in Conns : Connect(c)
    \/ \E c \in Conns, i \in Identities1 : Auth(c, i[1], i[2], i[3])
    \/ \E c \in Conns : Unauthenticated(c)
    \/ \E c \in Conns : FileOfferUnauthenticated(c)
    \/ \E c \in Conns, r \in RuleUpdates : UpdateRules(c, r)
    \/ \E c \in Conns : Close(c)

SpecDispatch == Init /\ [][NextDispatch]_vars

\* ------------------------------------------------- src/unnamed/part_002
\* the "final merged" server: rules default to image off and UPDATE_RULES merges
\* them; it has no revocation, no offline queue and no file store

\* part_002 lines 169-172 and 204-207
MergedRules == [text |-> TRUE, image |-> FALSE]

MergedDeviceList(us, userId) ==
    {[deviceId |-> d, rules |-> us[userId][d].rules] : d \in DOMAIN us[userId]}

broadcastDeviceList(us, rs, userId) ==
    IF userId \notin DOMAIN us THEN << >>
    ELSE LET list == MergedDeviceList(us, userId)
             one == [i \in DOMAIN DeviceOrder |->
                       LET d == DeviceOrder[i] IN
                       IF d \in DOMAIN us[userId]
                       THEN Send(rs, us[userId][d].ws, <<userId, d>>,
                                 [type |-> "DEVICE_LIST", devices |-> list])
                       ELSE << >>]
         IN Flatten(one, Len(DeviceOrder))

MergedAuth(c, userId, deviceId) ==
    /\ Receiving(c)
    /\ LET obj == [ws |-> c, userId |-> userId, deviceId |-> deviceId,
                   rules |-> MergedRules]
           us == Registered(users, obj)
       IN /\ device' = [device EXCEPT ![c] = Ref(obj)]
          /\ users' = us
          /\ outbox' = Send(readyState, c, Reply,
                            [type |-> "AUTH_OK", userId |-> userId])
                       \o broadcastDeviceList(us, readyState, userId)
    /\ UNCHANGED <<readyState, pairingTokens, revokedDevices, offlineQueue,
                   fileStore, nextFile, fileLog, now, crashed, tokenLog, missed>>

\* part_002 lines 222-225
MergedUnauthenticated(c) ==
    /\ Receiving(c)
    /\ device[c] = Null
    /\ outbox' = Send(readyState, c, Reply,
                      [type |-> "ERROR", message |-> "Not authenticated"])
    /\ UNCHANGED <<readyState, device, stores, nextFile, fileLog, now, crashed,
                   tokenLog, missed>>

\* the registry slot of c's identity holds the very object `device` refers to:
\* only an AUTH of c puts an object with ws = c into a slot, and it makes that
\* object c's `device`
Aliased(c) ==
    /\ device[c] # Null
    /\ device[c][1].userId \in DOMAIN users
    /\ device[c][1].deviceId \in DOMAIN users[device[c][1].userId]
    /\ users[device[c][1].userId][device[c][1].deviceId].ws = c

\* part_002 line 234: { ...device.rules, ...data.rules }
MergeRules(old, new) == new @@ old

\* part_002 lines 232-238, data.rules an object
MergedUpdateRules(c, rules) ==
    /\ Receiving(c)
    /\ device[c] # Null
    /\ LET dev == device[c][1]
           obj == [dev EXCEPT !.rules = MergeRules(dev.rules, rules)]
           us == IF Aliased(c) THEN Registered(users, obj) ELSE users
       IN /\ device' = [device EXCEPT ![c] = Ref(obj)]
          /\ users' = us
          /\ outbox' = broadcastDeviceList(us, readyState, dev.userId)
    /\ UNCHANGED <<readyState, pairingTokens, revokedDevices, offlineQueue,
                   fileStore, nextFile, fileLog, now, crashed, tokenLog, missed>>

\* part_002 lines 243-270
MergedClipUpdate(c, contentType, payload) ==
    /\ Receiving(c)
    /\ device[c] # Null
    /\ LET dev == device[c][1]
           one == [i \in DOMAIN DeviceOrder |->
                     LET d == DeviceOrder[i] IN
                     IF d \in ClipPeers(dev, contentType)
                     THEN Send(readyState, users[dev.userId][d].ws,
                               <<dev.userId, d>>,
                               ClipSync(dev, contentType, payload))
                     ELSE << >>]
       IN outbox' = Flatten(one, Len(DeviceOrder))
    /\ UNCHANGED <<readyState, device, stores, nextFile, fileLog, now, crashed,
                   tokenLog, missed>>

\* part_002 lines 273-286
MergedClose(c) ==
    /\ Receiving(c)
    /\ readyState' = [readyState EXCEPT ![c] = "CLOSED"]
    /\ IF device[c] = Null \/ device[c][1].userId \notin DOMAIN users
       THEN /\ outbox' = << >>
            /\ UNCHANGED users
       ELSE LET dev == device[c][1]
                deviceMap == MapDelete(users[dev.userId], dev.deviceId)
            IN IF DOMAIN deviceMap = {}
               THEN /\ users' = MapDelete(users, dev.userId)
                    /\ outbox' = << >>
               ELSE /\ users' = MapSet(users, dev.userId, deviceMap)
                    /\ outbox' = broadcastDeviceList(users', readyState', dev.userId)
    /\ UNCHANGED <<device, pairingTokens, revokedDevices, offlineQueue,
                   fileStore, nextFile, fileLog, now, crashed, tokenLog, missed>>

NextMerged ==
    \/ \E c \in Conns : Connect(c)
    \/ \E c \in Conns, d \in DeviceIds : MergedAuth(c, "u1", d)
    \/ \E c \in Conns : MergedUnauthenticated(c)
    \/ \E c \in Conns, r \in RuleUpdates : MergedUpdateRules(c, r)
    \/ \E c \in Conns, ct \in ContentTypes : MergedClipUpdate(c, ct, "p1")
    \/ \E c \in Conns : MergedClose(c)

SpecMerged == Init /\ [][NextMerged]_vars

\* ---------------------------------------------------------------- properties

AuthFail(c) == <<Envelope(c, Reply, [type |-> "AUTH_FAIL"])>>
DeviceRevoked(c) == <<Envelope(c, Reply, [type |-> "DEVICE_REVOKED"])>>

\* the CLIP_SYNC messages written to socket c in the last step, in order
ClipSyncsTo(box, c) ==
    LET sel == SelectSeq(box, LAMBDA e : e.to = c /\ e.msg.type = "CLIP_SYNC")
    IN [i \in DOMAIN sel |-> sel[i].msg]

PayloadsOf(msgs) == [i \in DOMAIN msgs |-> msgs[i].payload]

\* C1: a pairing token authenticates at most once: of the AUTH_PAIR messages
\* that present one issued token at most one is answered AUTH_OK, and once one
\* was, every later AUTH_PAIR with it is answered AUTH_FAIL and registers nothing.
C1_TokenSingleUse ==
    [][\A c \in Conns, t \in Tokens, i \in Identities1 :
          AuthPair(c, t, i[2], i[3]) =>
             /\ t \in DOMAIN tokenLog' => tokenLog'[t].ok <= 1
             /\ (t \in DOMAIN tokenLog /\ tokenLog[t].ok >= 1) =>
                   /\ outbox' = AuthFail(c)
                   /\ device' = device
                   /\ users' = users]_vars

\* a used token was presented again, within its lifetime, and failed
C1_Witness ==
    \E c \in Conns :
       /\ "T1" \in DOMAIN tokenLog
       /\ tokenLog["T1"].ok = 1
       /\ now <= tokenLog["T1"].at + PAIR_TTL_MS
       /\ outbox = AuthFail(c)

\* C2: an AUTH_PAIR that presents a token more than 120 seconds after it was
\* issued is answered AUTH_FAIL and registers nothing, whether or not the sweep
\* has removed the token.
C2_ExpiredTokenFails ==
    [][\A c \in Conns, t \in Tokens, i \in Identities1 :
          ( /\ AuthPair(c, t, i[2], i[3])
            /\ t \in DOMAIN tokenLog
            /\ now > tokenLog[t].at + 120 * 1000 ) =>
             /\ outbox' = AuthFail(c)
             /\ device' = device
             /\ users' = users]_vars

\* an unused token, expired and still in the store, was presented and failed
C2_Witness ==
    \E c \in Conns :
       /\ "T1" \in DOMAIN pairingTokens
       /\ tokenLog["T1"].ok = 0
       /\ now > tokenLog["T1"].at + 120 * 1000
       /\ outbox = AuthFail(c)

\* C3: no open socket is authenticated as a (userId, deviceId) that is in the
\* deny set.
C3_NoRevokedSession ==
    \A c \in Conns :
       (readyState[c] = "OPEN" /\ device[c] # Null) =>
          ~InDenySet(revokedDevices, device[c][1].userId, device[c][1].deviceId)

\* C4: an AUTH, or an AUTH_PAIR with a valid token, whose (userId, deviceId) is
\* in the deny set is answered DEVICE_REVOKED, the socket is closed, and neither
\* the registry nor the connection's device changes.
C4_RevokedAuthRejected ==
    [][\A c \in Conns, i \in Identities1, t \in Tokens :
          LET rejected == /\ readyState'[c] # "OPEN"
                          /\ readyState[c] = "OPEN" => outbox' = DeviceRevoked(c)
                          /\ device' = device
                          /\ users' = users
          IN /\ ( /\ Auth(c, i[1], i[2], i[3])
                  /\ InDenySet(revokedDevices, i[1], i[2]) ) => rejected
             /\ ( /\ AuthPair(c, t, i[2], i[3])
                  /\ t \in DOMAIN pairingTokens
                  /\ pairingTokens[t].expiresAt >= now
                  /\ InDenySet(revokedDevices, pairingTokens[t].userId, i[2]) )
                => rejected]_vars

\* a valid token was spent on a revoked device, which was turned away
C4_Witness ==
    \E c \in Conns :
       /\ "T1" \in DOMAIN tokenLog
       /\ "T1" \notin DOMAIN pairingTokens
       /\ tokenLog["T1"].ok = 0
       /\ outbox = DeviceRevoked(c)
       /\ readyState[c] = "CLOSING"
       /\ device[c] = Null

\* C5: a device that reconnects, with AUTH on a new socket, receives the text
\* updates its account sent while it was disconnected, each exactly once and in
\* order.
C5_OfflineTextDelivered ==
    [][\A c \in Conns, i \in Identities1 :
          ( /\ Auth(c, i[1], i[2], i[3])
            /\ readyState[c] = "OPEN"
            /\ device[c] = Null
            /\ ~InDenySet(revokedDevices, i[1], i[2])
            /\ <<i[1], i[2]>> \in DOMAIN missed ) =>
             PayloadsOf(ClipSyncsTo(outbox', c)) = missed[<<i[1], i[2]>>]]_vars

\* C6: a successful authentication sends the device's queue to the new socket,
\* every message once and in the order queued, and leaves the queue empty.
C6_QueueFlushedInOrder ==
    [][\A c \in Conns, i \in Identities1 :
          ( /\ Auth(c, i[1], i[2], i[3])
            /\ ~InDenySet(revokedDevices, i[1], i[2]) ) =>
             /\ ClipSyncsTo(outbox', c) = QueueOf(offlineQueue, i[1], i[2])
             /\ QueueOf(offlineQueue', i[1], i[2]) = << >>]_vars

\* C7: a CLIP_UPDATE is neither sent to nor queued for a peer whose rule for
\* its content type is false.
C7_DisabledTypeNotRelayed ==
    [][\A c \in Conns, ct \in ContentTypes, p \in Payloads :
          ClipUpdate(c, ct, p) =>
             LET u == device[c][1].userId IN
             \A d \in DOMAIN users[u] \ {device[c][1].deviceId} :
                ~users[u][d].rules[ct] =>
                   /\ \A k \in DOMAIN outbox' : outbox'[k].via # <<u, d>>
                   /\ QueueOf(offlineQueue', u, d) = QueueOf(offlineQueue, u, d)]_vars

\* C8: an image CLIP_SYNC is delivered only to a peer (a registered device of
\* the sender's account) whose rules.image is true at the time of the
\* CLIP_UPDATE, whatever sequence of UPDATE_RULES preceded it; when the socket
\* it is written to is currently authenticated as that peer, the rules that
\* socket last set with UPDATE_RULES allow images too.
C8_ImageRuleHonoured ==
    \A k \in DOMAIN outbox :
       (outbox[k].msg.type = "CLIP_SYNC" /\ outbox[k].msg.contentType = "image") =>
          LET u == outbox[k].via[1]
              d == outbox[k].via[2]
              c == outbox[k].to
          IN /\ u \in DOMAIN users
             /\ d \in DOMAIN users[u]
             /\ users[u][d].rules.image
             /\ ( /\ device[c] # Null
                  /\ device[c][1].userId = u
                  /\ device[c][1].deviceId = d ) => device[c][1].rules.image

\* an image went through to a peer on its own socket, which must have switched
\* images on with UPDATE_RULES
C8_Witness ==
    \E k \in DOMAIN outbox :
       /\ Len(outbox) = 1
       /\ outbox[k].msg.type = "CLIP_SYNC"
       /\ outbox[k].msg.contentType = "image"
       /\ device[outbox[k].to] # Null
       /\ device[outbox[k].to][1].deviceId = outbox[k].via[2]
       /\ device[outbox[k].to][1].deviceId # outbox[k].msg.from

\* C9: no FILE_OFFER written to a socket carries the file's bytes.
C9_NoBytesOnSocket ==
    \A k \in DOMAIN outbox :
       (outbox[k].to # Http /\ outbox[k].msg.type = "FILE_OFFER") =>
          "payload" \notin DOMAIN outbox[k].msg

\* C10: a FILE_OFFER reaches only peers whose rules.file is true.
C10_FileRuleGates ==
    \A k \in DOMAIN outbox :
       (outbox[k].to # Http /\ outbox[k].msg.type = "FILE_OFFER") =>
          users[outbox[k].via[1]][outbox[k].via[2]].rules.file

NotFound(fileId) == <<Envelope(Http, <<"file">>, [type |-> "404", id |-> fileId])>>

\* C11: a stored file is served at most once: a GET /file/{id} for an id that
\* was already served, or that was never stored, or whose record is older than
\* 60 seconds (fetched or not), is answered 404.
C11_FileServedOnce ==
    [][\A f \in FileIds :
          GetFile(f) =>
             /\ f \in DOMAIN fileLog' => fileLog'[f].served <= 1
             /\ ( \/ f \notin DOMAIN fileLog
                  \/ fileLog[f].served >= 1
                  \/ now > fileLog[f].at + 60 * 1000 ) =>
                   /\ outbox' = NotFound(f)
                   /\ fileLog' = fileLog]_vars

\* a file that was served once was requested again, within its lifetime, and
\* was not found
C11_Witness ==
    \E f \in FileIds :
       /\ f \in DOMAIN fileLog
       /\ fileLog[f].served = 1
       /\ now <= fileLog[f].at + FILE_TTL_MS
       /\ outbox = NotFound(f)

\* the devices of account u that an open socket is authenticated as
LiveDevices(u) ==
    {d \in DeviceIds : \E c \in Conns : /\ readyState[c] = "OPEN"
                                        /\ device[c] # Null
                                        /\ device[c][1].userId = u
                                        /\ device[c][1].deviceId = d}

\* C12: every DEVICE_LIST written to a socket of account u lists exactly the
\* devices of u that an open socket is authenticated as at the moment of the
\* broadcast, each with revoked equal to its membership in the deny set.
C12_DeviceListExact ==
    \A k \in DOMAIN outbox :
       (outbox[k].to # Http /\ outbox[k].msg.type = "DEVICE_LIST") =>
          LET u == outbox[k].via[1]
              devices == outbox[k].msg.devices
          IN /\ {e.deviceId : e \in devices} = LiveDevices(u)
             /\ \A e \in devices :
                   e.revoked = InDenySet(revokedDevices, u, e.deviceId)

\* C13: no two open sockets are authenticated as the same (userId, deviceId).
C13_OneLiveConnection ==
    \A c1 \in Conns, c2 \in Conns :
       ( /\ c1 # c2
         /\ readyState[c1] = "OPEN" /\ device[c1] # Null
         /\ readyState[c2] = "OPEN" /\ device[c2] # Null
         /\ device[c1][1].userId = device[c2][1].userId ) =>
          device[c1][1].deviceId # device[c2][1].deviceId

NotAuthenticated(c) ==
    <<Envelope(c, Reply, [type |-> "ERROR", message |-> "Not authenticated"])>>

\* C14: a message other than AUTH and AUTH_PAIR on an unauthenticated socket
\* is answered ERROR "Not authenticated" and nothing else happens: no store
\* changes and nothing is written to another socket.
C14_UnauthenticatedRejected ==
    [][\A c \in Conns :
          (Unauthenticated(c) \/ FileOfferUnauthenticated(c)) =>
             /\ readyState[c] = "OPEN" => outbox' = NotAuthenticated(c)
             /\ \A k \in DOMAIN outbox' : outbox'[k].to = c
             /\ UNCHANGED <<stores, device, readyState>>]_vars

\* C15: no message makes the handler throw: the process never dies of an
\* unhandled rejection.
C15_NoUnhandledException == ~crashed

\* C16: what a CLIP_UPDATE or FILE_OFFER of device D of account u makes the
\* server write goes only to sockets that hold a registry slot of u for a device
\* other than D and are authenticated for u, and never to the sending socket.
C16_RelayStaysInAccount ==
    [][\A c \in Conns :
          ( \/ \E ct \in ContentTypes, p \in Payloads : ClipUpdate(c, ct, p)
            \/ \E sz \in Sizes, b \in Sizes : FileOffer(c, sz, b) ) =>
             LET u == device[c][1].userId
                 D == device[c][1].deviceId
             IN \A k \in DOMAIN outbox' :
                   LET e == outbox'[k] IN
                   /\ e.via[1] = u
                   /\ e.via[2] # D
                   /\ e.via[2] \in DOMAIN users[u]
                   /\ users[u][e.via[2]].ws = e.to
                   /\ device[e.to] # Null
                   /\ device[e.to][1].userId = u
                   /\ e.to # c]_vars

\* C17: after an UPDATE_RULES with a partial rules map from device d of account
\* u, d's rule for every supplied key is the supplied value and for every other
\* key its old value, both in the sender's device object and in d's registry
\* slot; no other slot's rules change; and every open socket authenticated for
\* u is sent a DEVICE_LIST that shows d with the new rules.
C17_RulesMerged ==
    [][\A c \in Conns, r \in RuleUpdates :
          MergedUpdateRules(c, r) =>
             LET u == device[c][1].userId
                 d == device[c][1].deviceId
                 old == device[c][1].rules
                 new == device'[c][1].rules
             IN /\ \A key \in DOMAIN old :
                      new[key] = IF key \in DOMAIN r THEN r[key] ELSE old[key]
                /\ u \in DOMAIN users' /\ d \in DOMAIN users'[u]
                /\ users'[u][d].rules = new
                /\ \A x \in DOMAIN users[u] \ {d} :
                      x \in DOMAIN users'[u] /\ users'[u][x].rules = users[u][x].rules
                /\ \A c2 \in Conns :
                      ( /\ readyState[c2] = "OPEN"
                        /\ device[c2] # Null
                        /\ device[c2][1].userId = u ) =>
                         \E k \in DOMAIN outbox' :
                            /\ outbox'[k].to = c2
                            /\ outbox'[k].msg.type = "DEVICE_LIST"
                            /\ [deviceId |-> d, rules |-> new]
                                  \in outbox'[k].msg.devices]_vars

\* C18: an AUTH_PAIR with an absent or expired token is answered AUTH_FAIL and
\* changes nothing: the socket stays open with the device it had, and the
\* registry, the token store, the deny set and the offline queue are as before.
\* An AUTH_PAIR with a valid token succeeds on any socket, one that was
\* answered AUTH_FAIL before included.
C18_AuthFailKeepsConnection ==
    [][\A c \in Conns, t \in Tokens, i \in Identities1 :
          AuthPair(c, t, i[2], i[3]) =>
             IF t \notin DOMAIN pairingTokens \/ pairingTokens[t].expiresAt < now
             THEN /\ readyState[c] = "OPEN" => outbox' = AuthFail(c)
                  /\ readyState' = readyState
                  /\ device' = device
                  /\ UNCHANGED <<users, pairingTokens, revokedDevices, offlineQueue>>
             ELSE ~InDenySet(revokedDevices, pairingTokens[t].userId, i[2]) =>
                  /\ device'[c] # Null
                  /\ device'[c][1].userId = pairingTokens[t].userId
                  /\ device'[c][1].deviceId = i[2]
                  /\ users'[pairingTokens[t].userId][i[2]].ws = c
                  /\ readyState[c] = "OPEN" =>
                        outbox'[1] = Envelope(c, Reply,
                                              [type |-> "AUTH_OK",
                                               userId |-> pairingTokens[t].userId])]_vars

\* an authenticated socket presented a token that is not in the store, was
\* refused, and is still open and authenticated
C18_Witness ==
    \E c \in Conns :
       /\ outbox = AuthFail(c)
       /\ readyState[c] = "OPEN"
       /\ device[c] # Null
       /\ DOMAIN pairingTokens = {}

\* C19: an AUTH_PAIR removes its token from the store exactly when it succeeds;
\* one that is rejected, with AUTH_FAIL or with DEVICE_REVOKED, leaves the store
\* as it was.
C19_TokenDeletedOnSuccessOnly ==
    [][\A c \in Conns, t \in Tokens, i \in Identities1 :
          (AuthPair(c, t, i[2], i[3]) /\ t \in DOMAIN pairingTokens) =>
             LET succeeds == /\ pairingTokens[t].expiresAt >= now
                             /\ ~InDenySet(revokedDevices, pairingTokens[t].userId, i[2])
             IN IF succeeds
                THEN t \notin DOMAIN pairingTokens'
                ELSE pairingTokens' = pairingTokens]_vars

\* C20: every message in every offline queue is a CLIP_SYNC with contentType
\* "text": nothing else is kept for a peer whose socket is not open.
C20_OnlyTextQueued ==
    \A u \in DOMAIN offlineQueue :
       \A d \in DOMAIN offlineQueue[u] :
          \A k \in DOMAIN offlineQueue[u][d] :
             /\ offlineQueue[u][d][k].type = "CLIP_SYNC"
             /\ offlineQueue[u][d][k].contentType = "text"

\* the queue of a peer whose socket is not open holds MaxQueue text updates,
\* and the last step sent nothing
C20_Witness ==
    \E u \in DOMAIN users :
       \E d \in DOMAIN users[u] :
          /\ readyState[users[u][d].ws] # "OPEN"
          /\ Len(QueueOf(offlineQueue, u, d)) = MaxQueue
          /\ outbox = << >>

\* C21: a FILE_OFFER whose declared size exceeds MAX_FILE_SIZE is dropped
\* entirely: no record is stored and nothing is written to any socket.
C21_OversizedDropped ==
    [][\A c \in Conns, sz \in Sizes, b \in Sizes :
          (FileOffer(c, sz, b) /\ sz > 5 * 1024 * 1024) =>
             /\ outbox' = << >>
             /\ fileStore' = fileStore]_vars

\* C22: the byte buffer of every stored file record is at most 5 MiB long.
C22_StoredBytesCapped ==
    \A f \in DOMAIN fileStore : fileStore[f].buffer <= 5 * 1024 * 1024

\* C23: a REVOKE_DEVICE for a deviceId closes, in the same step, every open
\* socket of the account that is authenticated as it; and when the close of a
\* socket authenticated as a revoked device is processed, the device's registry
\* entry is removed and every open socket authenticated for the account is sent
\* a DEVICE_LIST without it.
C23_RevokedSessionClosed ==
    [][\A c \in Conns, d \in DeviceIds :
          /\ RevokeDevice(c, d) =>
                \A c2 \in Conns :
                   ( /\ readyState[c2] = "OPEN"
                     /\ device[c2] # Null
                     /\ device[c2][1].userId = device[c][1].userId
                     /\ device[c2][1].deviceId = d ) => readyState'[c2] # "OPEN"
          /\ ( /\ Close(c)
               /\ device[c] # Null
               /\ device[c][1].deviceId = d
               /\ InDenySet(revokedDevices, device[c][1].userId, d) ) =>
                LET u == device[c][1].userId IN
                /\ d \notin DOMAIN users'[u]
                /\ \A c3 \in Conns :
                      ( /\ readyState'[c3] = "OPEN"
                        /\ device[c3] # Null
                        /\ device[c3][1].userId = u ) =>
                         \E k \in DOMAIN outbox' :
                            /\ outbox'[k].to = c3
                            /\ outbox'[k].msg.type = "DEVICE_LIST"
                            /\ \A e \in outbox'[k].msg.devices : e.deviceId # d]_vars

\* what an AUTH_PAIR would find in a store that is never swept: the token was
\* issued, not used since, and its 120 seconds have not passed
ValidUnswept(t) ==
    /\ t \in DOMAIN tokenLog
    /\ tokenLog[t].ok = 0
    /\ ~(tokenLog[t].at + PAIR_TTL_MS < now)

\* C24: the sweep deletes only tokens whose expiresAt has passed and leaves the
\* others as they are, and the reply to every AUTH_PAIR is the one the issuances
\* and uses alone determine, wherever sweeps were interleaved: AUTH_OK if the
\* token was issued at most 120 seconds ago and not used since, else AUTH_FAIL.
C24_SweepIsTransparent ==
    [][/\ Sweep =>
             /\ \A t \in DOMAIN pairingTokens :
                   IF pairingTokens[t].expiresAt < now
                   THEN t \notin DOMAIN pairingTokens'
                   ELSE /\ t \in DOMAIN pairingTokens'
                        /\ pairingTokens'[t] = pairingTokens[t]
             /\ DOMAIN pairingTokens' \subseteq DOMAIN pairingTokens
       /\ \A c \in Conns, t \in Tokens, i \in Identities1 :
             AuthPair(c, t, i[2], i[3]) =>
                IF ValidUnswept(t)
                THEN outbox'[1] = Envelope(c, Reply, [type |-> "AUTH_OK",
                                                      userId |-> "u1"])
                ELSE outbox' = AuthFail(c)]_vars

\* an unused token was removed by the sweep and an AUTH_PAIR then presented it
C24_Witness ==
    \E c \in Conns :
       /\ "T1" \in DOMAIN tokenLog
       /\ tokenLog["T1"].ok = 0
       /\ "T1" \notin DOMAIN pairingTokens
       /\ outbox = AuthFail(c)

\* C25: once the close of a socket has been processed, no registry entry of any
\* account refers to that socket.
C25_NoEntryForClosedSocket ==
    \A c \in Conns :
       readyState[c] = "CLOSED" =>
          \A u \in DOMAIN users :
             \A d \in DOMAIN users[u] : users[u][d].ws # c

\* C26: processing the close of a socket removes no registry entry that refers
\* to another socket, and changes none.
C26_CloseRemovesOwnEntryOnly ==
    [][\A c \in Conns :
          Close(c) =>
             \A u \in DOMAIN users :
                \A d \in DOMAIN users[u] :
                   users[u][d].ws # c =>
                      /\ u \in DOMAIN users'
                      /\ d \in DOMAIN users'[u]
                      /\ users'[u][d] = users[u][d]]_vars
====
